---------------------------- MODULE Spec2Model ----------------------------
(***************************************************************************)
(* The moments (SNS) timeline export of WeFlow:                            *)
(*   electron/services/snsExportService.ts  SnsExportService               *)
(*   electron/services/snsService.ts        SnsService.getTimeline         *)
(*                                          SnsService.resolveMediaPath    *)
(* and the live feed of the page that starts the export:                   *)
(*   SnsPage (loadPosts, handleScroll, handleExport)                       *)
(*                                                                         *)
(* One invocation of exportTimeline is modelled as a state machine whose   *)
(* steps are the segments of code between two awaits: each action is the   *)
(* completion of the awaited call (its outcome drawn from the outcomes the *)
(* collaborator can produce) followed by all the synchronous code up to    *)
(* the next await, progress callbacks included.                            *)
(*                                                                         *)
(* Strings that the source writes in Chinese are rendered in ASCII:        *)
(*   '导出路径未设置'      "export path not set"                           *)
(*   '获取朋友圈失败'      "get timeline failed"                           *)
(*   '准备导出媒体...'     message "prepare"                               *)
(*   '正在导出媒体 c/t'    message "media"                                 *)
(*   '正在写入导出文件...' message "writing"                               *)
(*   '导出完成'            message "done"                                  *)
(*   '【i】'                "[i]"                                           *)
(*   '媒体: '              "media: "                                       *)
(*   '点赞: '              "likes: "                                       *)
(*   '评论: '              "comments: "                                    *)
(*   ' 回复 '              " reply "                                       *)
(*   '、'                  ", "                                            *)
(*   '朋友圈'              sheet "moments"                                 *)
(* A path is the sequence of its components, a URL the sequence            *)
(* <<scheme, stem, extension>>, and the empty string the empty sequence.   *)
(***************************************************************************)
EXTENDS Integers, Sequences, FiniteSets, TLC

(***************************************************************************)
(* Bounds of the model.                                                    *)
(***************************************************************************)
\* getTimeline calls one aggregation may issue against a volatile source
MaxCalls == 3
\* rows of the tables the media export is explored with
MaxRows == 2
\* media items of such a table, over all its rows
MaxMedia == 3
\* the wall clock is followed over the instants that lie up to MaxHours
\* whole hours and MaxSeconds seconds after its start
MaxHours == 1
MaxSeconds == 1

(***************************************************************************)
(* Program constants.                                                      *)
(***************************************************************************)
\* collectTimeline: const limit = 200
limit == 200
\* exportMedia: post.type === 15 is a video post
VideoType == 15
\* any other post type (an image post)
ImageType == 1
\* SnsPage.loadPosts: const limit = 20
FeedLimit == 20
\* seconds of a day; endTs is the start of the day + 86399
DaySeconds == 86400
\* seconds of an hour and of a minute, for getHours() and getMinutes()
HourSeconds == 3600
MinuteSeconds == 60

Min(a, b) == IF a < b THEN a ELSE b
Max(a, b) == IF a > b THEN a ELSE b

(***************************************************************************)
(* Inputs of exportTimeline.                                               *)
(***************************************************************************)
EmptyString == <<>>
OutputDirs == {EmptyString, <<"/out">>}

NoFilter == [usernames |-> <<>>, keyword |-> "", startTime |-> 0, endTime |-> 0]
AliceFilter ==
    [usernames |-> <<"alice">>, keyword |-> "",
     startTime |-> 1700000000, endTime |-> 1700086399]
Filters == {NoFilter, AliceFilter}

\* the filter controls of SnsPage; a date is <<year, month, day>>, as typed
\* into the date input, or the empty string
NoSelection ==
    [usernames |-> <<>>, keyword |-> "", startDate |-> EmptyString,
     endDate |-> EmptyString]
AliceSelection ==
    [usernames |-> <<"alice">>, keyword |-> "", startDate |-> <<2023, 11, 14>>,
     endDate |-> <<2023, 11, 15>>]
Selections == {NoSelection, AliceSelection}

\* the days from 1970-01-01 to the day d of month m of year y
DaysFromCivil(y, m, d) ==
    LET yy == IF m <= 2 THEN y - 1 ELSE y
        era == yy \div 400
        yoe == yy - era * 400
        mp == IF m > 2 THEN m - 3 ELSE m + 9
        doy == (153 * mp + 2) \div 5 + d - 1
        doe == yoe * 365 + yoe \div 4 - yoe \div 100 + doy
    IN  era * 146097 + doe - 719468
\* Math.floor(new Date(date).getTime() / 1000), for a date YYYY-MM-DD
DateSeconds(date) == DaysFromCivil(date[1], date[2], date[3]) * DaySeconds
\* startDate ? Math.floor(new Date(startDate).getTime() / 1000) : undefined
\* (0 stands for undefined, as in NoFilter)
StartTs(sel) == IF sel.startDate # EmptyString THEN DateSeconds(sel.startDate) ELSE 0
\* endDate ? Math.floor(new Date(endDate).getTime() / 1000) + 86399 : undefined
EndTs(sel) ==
    IF sel.endDate # EmptyString THEN DateSeconds(sel.endDate) + (DaySeconds - 1) ELSE 0
\* handleExport: the filters it passes to exportTimeline
HandleExportFilters(sel) ==
    [usernames |-> sel.usernames, keyword |-> sel.keyword,
     startTime |-> StartTs(sel), endTime |-> EndTs(sel)]

Formats == {"json", "excel", "txt"}
\* SnsExportOptions: exportMedia is optional
Options == [format : Formats, exportMedia : BOOLEAN] \cup [format : Formats]

\* onProgress: not passed, or a callback, whose every call returns or throws
Callbacks == {"absent", "present"}

(***************************************************************************)
(* Media references and rows of the timeline source.                       *)
(***************************************************************************)
RemoteUrl == <<"https://", "cdn/a", ".png">>
RemoteThumb == <<"https://", "cdn/a_thumb", "">>
LocalThumb == <<"file://", "/cache/b", ".jpg">>

MediaKinds ==
    { [url |-> RemoteUrl, thumb |-> RemoteThumb],
      [url |-> EmptyString, thumb |-> LocalThumb],
      [url |-> EmptyString, thumb |-> EmptyString] }
\* those, and an item whose only reference has no extension in its path
NamingKinds == MediaKinds \cup {[url |-> EmptyString, thumb |-> RemoteThumb]}

RECURSIVE SeqsUpTo(_, _)
SeqsUpTo(S, n) ==
    IF n = 0 THEN {<<>>}
    ELSE LET shorter == SeqsUpTo(S, n - 1)
         IN  shorter \cup {Append(s, x) : s \in {t \in shorter : Len(t) = n - 1}, x \in S}

\* the media of the rows 1..n of a table, budget items in all, each of one
\* of the kinds: a sequence of n media lists; the rows after these have no
\* media
RECURSIVE LayoutsOf(_, _, _)
LayoutsOf(kinds, n, budget) ==
    IF n = 0 THEN {<<>>}
    ELSE UNION {{Append(l, ml) : l \in LayoutsOf(kinds, n - 1, budget - Len(ml))} :
                  ml \in SeqsUpTo(kinds, budget)}
Layouts(n, budget) == LayoutsOf(MediaKinds, n, budget)

\* the rows of the table are numbered from 1; RowType is the row's type tag
RowType(id) == IF id % 2 = 0 THEN VideoType ELSE ImageType

VARIABLES
    \* ---- the arguments of exportTimeline
    outputDir, filters, options, onProgress,
    \* ---- the environment
    source,        \* a fixed list of rows, or a table that changes while paged
    layout,        \* the media of the first rows
    zone,          \* the time zone of the machine
    clock,         \* the wall clock, in seconds since the epoch
    previous,      \* an earlier invocation of exportTimeline, once finished
    \* ---- the invocation
    pc,            \* the await the invocation is suspended at
    timeline,      \* collectTimeline: timeline
    offset,        \* collectTimeline: offset
    exportDirName, exportDir, outputPath,
    namedAt,       \* the clock when buildExportBaseName was called
    exportedPosts,
    postIndex, mediaIndex,   \* exportMedia: the item being downloaded (1-based)
    current, total,          \* exportMedia: current, total
    result,        \* the value exportTimeline returned
    thrown,        \* the exception raised inside its try block, if any
    \* ---- what the invocation did, in order
    calls,         \* the getTimeline calls issued
    served,        \* the responses they got
    events,        \* the onProgress invocations
    dirs,          \* the directories created
    files,         \* the output files written
    written,       \* what the formatter wrote to the output file
    mediaFiles,    \* the media files written
    started,       \* the downloadMediaFile calls made
    downloads,     \* the downloadMediaFile calls completed
    \* ---- the live feed of SnsPage
    selection,     \* selectedUsernames, searchKeyword, startDate, endDate
    feedPosts,     \* posts
    displayed,     \* the getTimeline calls whose pages make up posts, in order
    feedOffset,    \* offset
    hasMore, loading,
    loadingRef,    \* loadingRef.current
    request,       \* the getTimeline call loadPosts is awaiting
    effectPending, \* the effect on the filters has yet to run
    \* ---- SnsService.resolveMediaPath
    resolutions,   \* the resolveMediaPath calls, each with its position
    resolverCalls, \* the calls made to imageDecryptService, in order
    settled,       \* the resolveMediaPath calls that returned, in that order
    \* ---- SnsService.getTimeline
    enrichment     \* the call: its position, the source's result, its own

inputVars == <<outputDir, filters, options, onProgress>>
envVars == <<source, layout, zone, previous>>
collectVars == <<timeline, offset, calls, served>>
pathVars == <<exportDirName, exportDir, outputPath, namedAt>>
mediaVars ==
    <<postIndex, mediaIndex, current, total, started, downloads, mediaFiles>>
feedVars ==
    <<selection, feedPosts, displayed, feedOffset, hasMore, loading, loadingRef,
      request, effectPending>>
resolveVars == <<resolutions, resolverCalls, settled, enrichment>>
vars ==
    <<outputDir, filters, options, onProgress, source, layout, zone, clock,
      previous, pc, timeline, offset, exportDirName, exportDir, outputPath,
      namedAt, exportedPosts, postIndex, mediaIndex, current, total, result,
      thrown, calls, served, events, dirs, files, written, mediaFiles, started,
      downloads, selection, feedPosts, displayed, feedOffset, hasMore, loading, loadingRef,
      request, effectPending, resolutions, resolverCalls, settled, enrichment>>

(***************************************************************************)
(* The timeline source: snsService.getTimeline as collectTimeline sees it. *)
(***************************************************************************)
\* the comments of a row: one, and a reply to it
Comments ==
    << [id |-> "c1", nickname |-> "Bob", content |-> "nice", refCommentId |-> "",
        refNickname |-> ""],
       [id |-> "c2", nickname |-> "Carol", content |-> "yes", refCommentId |-> "c1",
        refNickname |-> "Bob"] >>

\* the row with number id, as getTimeline returns it: the rows differ in
\* having a text, likes and comments
Row(id) ==
    [id |-> id,
     username |-> "alice",
     nickname |-> "Alice",
     createTime |-> AliceFilter.startTime + id,
     contentDesc |-> IF id % 2 = 0 THEN "" ELSE "hello",
     type |-> RowType(id),
     media |-> IF id \in DOMAIN layout THEN layout[id] ELSE <<>>,
     likes |-> IF id % 2 = 0 THEN <<"Bob", "Carol">> ELSE <<>>,
     comments |-> IF id % 3 = 0 THEN <<>> ELSE Comments]

\* rows off+1 .. off+n, in table order
RowsFrom(off, n) == [i \in 1..n |-> Row(off + i)]

Page(rows) == [kind |-> "page", timeline |-> rows, error |-> ""]
MissingPage == [kind |-> "missing", timeline |-> <<>>, error |-> ""]
FailedPage(msg) == [kind |-> "fail", timeline |-> <<>>, error |-> msg]
RejectedCall == [kind |-> "reject", timeline |-> <<>>, error |-> "wcdb crashed"]

SourceErrors == {"", "db closed"}

\* a fixed list of n rows, served in slices
StableSource(n) == [stable |-> TRUE, rows |-> n, lens |-> {}]
\* a table whose content changes between two calls: any page of a length in
\* lens, a result without timeline, a failure, or a rejected call
VolatileSource(lens) == [stable |-> FALSE, rows |-> 0, lens |-> lens]

\* the responses getTimeline(lim, off, ...) may give to the n-th call
getTimeline(lim, off, n) ==
    IF source.stable
    THEN {Page(RowsFrom(off, Min(lim, Max(0, source.rows - off))))}
    ELSE {Page(RowsFrom(off, len)) :
             len \in {l \in source.lens : l <= lim /\ (l < lim \/ n < MaxCalls)}}
         \cup {MissingPage, RejectedCall}
         \cup {FailedPage(msg) : msg \in SourceErrors}

(***************************************************************************)
(* Exceptions and the result of exportTimeline.                            *)
(***************************************************************************)
Error(msg) == [name |-> "Error", message |-> msg]
NoException == [name |-> "", message |-> ""]
\* String(error) of an Error object
String(error) == error.name \o ": " \o error.message

NoResult == [success |-> FALSE, pending |-> TRUE]
Failure(msg) == [success |-> FALSE, error |-> msg]
Success(dir, path) == [success |-> TRUE, outputDir |-> dir, outputPath |-> path]
\* the output file before the formatter wrote it
NoContent == [format |-> ""]
\* mutant: the catch block reports error.message for String(error)
CaughtMessage(error) == Failure(error.message)
\* exportTimeline: catch (error) { return { success: false, error: String(error) } }
Caught(error) == Failure(String(error))

(***************************************************************************)
(* Initial state: exportTimeline has been called and not yet run.          *)
(***************************************************************************)
\* the tables the media export is explored with: short fixed ones with any
\* media, and a changing one whose rows have none
SmallSources ==
    {StableSource(n) : n \in 0..MaxRows} \cup {VolatileSource({0, MaxRows})}
SmallLayouts(src) == IF src.stable THEN Layouts(src.rows, MaxMedia) ELSE {<<>>}

\* the tables the aggregation is explored with: one to MaxCalls pages
PagedSources ==
    {StableSource(n) : n \in {0, 1, limit - 1, limit, limit + 50, 2 * limit}}
    \cup {VolatileSource({0, 1, limit - 1, limit})}

\* the media of those: none, or one item in the first row
PagedLayouts == {<<>>, <<<<[url |-> RemoteUrl, thumb |-> RemoteThumb]>>>>}

\* the time zones: UTC, and one that leaves daylight saving time (UTC+2) for
\* standard time (UTC+1) on 2023-10-29 at 01:00 UTC
UTC == [standard |-> 0, daylight |-> 0, fallBack |-> 0]
Berlin ==
    [standard |-> HourSeconds, daylight |-> 2 * HourSeconds,
     fallBack |-> DateSeconds(<<2023, 10, 29>>) + HourSeconds]
Zones == {UTC, Berlin}

\* no earlier invocation
NoRun ==
    [outputDir |-> <<>>, named |-> FALSE, namedAt |-> 0, exportDir |-> <<>>,
     outputPath |-> <<>>, files |-> {}, mediaFiles |-> {}]

InitInvocation ==
    /\ outputDir \in OutputDirs
    /\ options \in Options
    /\ onProgress \in Callbacks
    /\ previous = NoRun
    /\ pc = "start"
    /\ timeline = <<>>
    /\ offset = 0
    /\ exportDirName = <<>>
    /\ exportDir = <<>>
    /\ outputPath = <<>>
    /\ namedAt = 0
    /\ exportedPosts = <<>>
    /\ postIndex = 0
    /\ mediaIndex = 0
    /\ current = 0
    /\ total = 0
    /\ result = NoResult
    /\ thrown = NoException
    /\ calls = <<>>
    /\ served = <<>>
    /\ events = <<>>
    /\ dirs = {}
    /\ files = {}
    /\ written = NoContent
    /\ mediaFiles = {}
    /\ started = <<>>
    /\ downloads = <<>>

\* SnsPage as constructed: no post, nothing loading, the effect on the
\* filters about to run
NoRequest == [pending |-> FALSE]
InitPage ==
    /\ feedPosts = <<>>
    /\ displayed = <<>>
    /\ feedOffset = 0
    /\ hasMore = TRUE
    /\ loading = FALSE
    /\ loadingRef = FALSE
    /\ request = NoRequest
    /\ effectPending = TRUE

\* SnsService.getTimeline has not been called
NoEnrichment == [pc |-> "idle"]
\* no resolveMediaPath call
NoResolution ==
    /\ resolutions = <<>>
    /\ resolverCalls = <<>>
    /\ settled = <<>>
    /\ enrichment = NoEnrichment

\* the media export: short tables with any media, one filter
Init ==
    /\ zone = UTC
    /\ clock = 0
    /\ selection = NoSelection
    /\ InitPage
    /\ NoResolution
    /\ filters = AliceFilter
    /\ source \in SmallSources
    /\ layout \in SmallLayouts(source)
    /\ InitInvocation
\* the naming of the media files: every export of a fixed table to /out
\* with its media, the items of any kind
InitNaming ==
    /\ zone = UTC
    /\ clock = 0
    /\ selection = NoSelection
    /\ InitPage
    /\ NoResolution
    /\ filters = AliceFilter
    /\ source \in {StableSource(n) : n \in 1..MaxRows}
    /\ layout \in LayoutsOf(NamingKinds, source.rows, MaxMedia)
    /\ InitInvocation
    /\ outputDir # EmptyString
    /\ options = [format |-> "json", exportMedia |-> TRUE]
    /\ onProgress = "absent"
\* the aggregation: tables of several pages, any filter
InitPaged ==
    /\ zone = UTC
    /\ clock = 0
    /\ selection = NoSelection
    /\ InitPage
    /\ NoResolution
    /\ filters \in Filters
    /\ source \in PagedSources
    /\ layout \in PagedLayouts
    /\ InitInvocation

\* the tables the live feed is explored with: fixed lists of up to two
\* export pages, that is up to thirteen pages of the feed
FeedSources ==
    {StableSource(n) :
        n \in {0, 1, FeedLimit - 1, FeedLimit, FeedLimit + 1, limit, limit + 50}}
\* the page is open and handleExport has called exportTimeline with the
\* filters selected on the page
InitFeed ==
    /\ zone = UTC
    /\ clock = 0
    /\ selection \in Selections
    /\ InitPage
    /\ NoResolution
    /\ filters = HandleExportFilters(selection)
    /\ source \in FeedSources
    /\ layout = <<<<[url |-> RemoteUrl, thumb |-> RemoteThumb]>>>>
    /\ InitInvocation
    \* handleExport returns early without a folder; the format and the media
    \* switch are those the page starts with
    /\ outputDir # EmptyString
    /\ options = [format |-> "excel", exportMedia |-> TRUE]

(***************************************************************************)
(* Helpers of snsExportService.ts.                                         *)
(***************************************************************************)
\* path.join(dir, name)
PathJoin(dir, name) == Append(dir, name)
\* path.relative(from, to), for a path below from
PathRelative(from, to) == SubSeq(to, Len(from) + 1, Len(to))

\* the calendar date of the day z days after 1970-01-01
CivilFromDays(z) ==
    LET zz == z + 719468
        era == zz \div 146097
        doe == zz - era * 146097
        yoe == (doe - doe \div 1460 + doe \div 36524 - doe \div 146096) \div 365
        doy == doe - (365 * yoe + yoe \div 4 - yoe \div 100)
        mp == (5 * doy + 2) \div 153
        m == IF mp < 10 THEN mp + 3 ELSE mp - 9
    IN  [year |-> yoe + era * 400 + (IF m <= 2 THEN 1 ELSE 0),
         month |-> m,
         day |-> doy - (153 * mp + 2) \div 5 + 1]

\* the offset of local time from UTC at the instant t
UtcOffset(t) == IF t < zone.fallBack THEN zone.daylight ELSE zone.standard

\* the local fields of new Date(t * 1000): getFullYear(), getMonth() + 1,
\* getDate(), getHours(), getMinutes(), getSeconds()
LocalFields(t) ==
    LET local == t + UtcOffset(t)
        date == CivilFromDays(local \div DaySeconds)
        secs == local % DaySeconds
    IN  [year |-> date.year, month |-> date.month, day |-> date.day,
         hours |-> secs \div HourSeconds,
         minutes |-> (secs % HourSeconds) \div MinuteSeconds,
         seconds |-> secs % MinuteSeconds]

\* const pad = (value) => String(value).padStart(2, '0')
Pad(value) == IF value < 10 THEN "0" \o ToString(value) ELSE ToString(value)

\* buildExportBaseName(): sns-export-YYYYMMDD-HHMMSS of the local time now
buildExportBaseName ==
    LET now == LocalFields(clock)
    IN  "sns-export-" \o ToString(now.year) \o Pad(now.month) \o Pad(now.day)
        \o "-" \o Pad(now.hours) \o Pad(now.minutes) \o Pad(now.seconds)

\* the characters sanitizeFileName replaces occur, in this model, only in
\* the extension ".p:g"
sanitizeFileName(name) ==
    [stem |-> name.stem, ext |-> IF name.ext = ".p:g" THEN ".p_g" ELSE name.ext]

\* resolveMediaExtension(url, fallback): the extension of the url's path
resolveMediaExtension(url, fallback) ==
    IF url[3] # "" THEN url[3] ELSE fallback

\* the outcomes of downloadMediaFile(sourceUrl, targetPath)
downloadMediaFile(sourceUrl) ==
    IF sourceUrl[1] = "file://"
    THEN {"ok", "fs error"}
    ELSE {"ok", "http status", "network error", "fs error"}

\* the truthiness of a string
Truthy(str) == str # EmptyString
\* a || b
OrElse(a, b) == IF Truthy(a) THEN a ELSE b

(***************************************************************************)
(* Progress events.                                                        *)
(***************************************************************************)
Progress(c, t, msg) == [current |-> c, total |-> t, message |-> msg]

\* onProgress?.(event): the events after the call
Emit(evs, event) == IF onProgress = "absent" THEN evs ELSE Append(evs, event)
\* what one onProgress call may do: return (FALSE) or throw (TRUE)
Throws == IF onProgress = "present" THEN BOOLEAN ELSE {FALSE}
CallbackError == Error("onProgress failed")

(***************************************************************************)
(* collectTimeline.                                                        *)
(***************************************************************************)
\* the arguments of one getTimeline call
CallArgs(off) ==
    [limit |-> limit, offset |-> off,
     usernames |-> filters.usernames, keyword |-> filters.keyword,
     startTime |-> filters.startTime, endTime |-> filters.endTime]

\* mutant: a failed result is taken for a result without rows
ResultFailedIgnored(resp) == FALSE
\* if (!result.success)
ResultFailed(resp) == resp.kind = "fail"
\* throw new Error(result.error || '...')
CollectError(resp) == Error(IF resp.error # "" THEN resp.error ELSE "get timeline failed")
\* if (!result.timeline || result.timeline.length === 0) break
PageEmpty(resp) == resp.kind = "missing" \/ Len(resp.timeline) = 0
\* mutant: the page is put in front of the timeline (unshift for push)
PushPageInFront(tl, rows) == rows \o tl
\* timeline.push(...result.timeline)
PushPage(tl, rows) == tl \o rows
\* if (result.timeline.length < limit) break
ShortPage(rows) == Len(rows) < limit
\* mutant: offset = limit for offset += limit
NextOffsetAssigned(off) == limit
\* offset += limit
NextOffset(off) == off + limit

(***************************************************************************)
(* exportTimeline, up to the first getTimeline call.                       *)
(***************************************************************************)
\* mutant: the check of outputDir is missing
OutputDirUnchecked == FALSE
\* if (!outputDir)
OutputDirMissing == ~Truthy(outputDir)

Validate ==
    /\ pc = "start"
    /\ IF OutputDirMissing
       THEN /\ result' = Failure("export path not set")
            /\ pc' = "done"
            /\ UNCHANGED <<collectVars>>
       ELSE /\ timeline' = <<>>
            /\ offset' = 0
            /\ calls' = Append(calls, CallArgs(0))
            /\ pc' = "collect"
            /\ UNCHANGED <<result, served>>
    /\ UNCHANGED <<resolveVars, feedVars, inputVars, envVars, clock, pathVars, exportedPosts,
                   mediaVars, thrown, events, dirs, files, written>>

\* the code after collectTimeline returned tl: the export directory is named
\* and its creation awaited
AfterCollect(tl) ==
    /\ timeline' = tl
    /\ exportDirName' = buildExportBaseName
    /\ exportDir' = PathJoin(outputDir, buildExportBaseName)
    /\ namedAt' = clock
    /\ pc' = "mkdir"
    /\ UNCHANGED <<offset, calls, result, thrown, outputPath>>

\* a getTimeline call returns
PageReturned ==
    /\ pc = "collect"
    /\ \E resp \in getTimeline(limit, offset, Len(calls)) :
         /\ served' = Append(served, resp)
         /\ IF resp.kind = "reject"
            THEN /\ thrown' = Error(resp.error)
                 /\ result' = Caught(Error(resp.error))
                 /\ pc' = "done"
                 /\ UNCHANGED <<timeline, offset, calls, pathVars>>
            ELSE IF ResultFailed(resp)
            THEN /\ thrown' = CollectError(resp)
                 /\ result' = Caught(CollectError(resp))
                 /\ pc' = "done"
                 /\ UNCHANGED <<timeline, offset, calls, pathVars>>
            ELSE IF PageEmpty(resp)
            THEN AfterCollect(timeline)
            ELSE IF ShortPage(resp.timeline)
            THEN AfterCollect(PushPage(timeline, resp.timeline))
            ELSE /\ timeline' = PushPage(timeline, resp.timeline)
                 /\ offset' = NextOffset(offset)
                 /\ calls' = Append(calls, CallArgs(NextOffset(offset)))
                 /\ pc' = "collect"
                 /\ UNCHANGED <<result, thrown, pathVars>>
    /\ UNCHANGED <<resolveVars, feedVars, inputVars, envVars, clock, exportedPosts, mediaVars,
                   events, dirs, files, written>>

(***************************************************************************)
(* exportTimeline, from the export directory to the media export.          *)
(***************************************************************************)
\* const ext = options.format === 'excel' ? 'xlsx' : options.format
FormatExt == IF options.format = "excel" THEN "xlsx" ELSE options.format

\* mutant: the media export runs whatever the options say
ExportMediaAlways == TRUE
\* if (options.exportMedia)
ExportMediaRequested == "exportMedia" \in DOMAIN options /\ options.exportMedia

\* mutant: the file is named by a second call of buildExportBaseName
OutputFileNameRebuilt == buildExportBaseName \o "." \o FormatExt
\* `${exportDirName}.${ext}`
OutputFileName == exportDirName \o "." \o FormatExt

\* timeline.map(post => ({...post, media: post.media.map(({url, thumb}) => ...)}))
NormalizePosts(tl) ==
    [i \in 1..Len(tl) |->
        [tl[i] EXCEPT !.media =
            [m \in 1..Len(tl[i].media) |->
                [url |-> tl[i].media[m].url, thumb |-> tl[i].media[m].thumb]]]]

\* the sum of post.media.length over posts[lo..hi], by halves
RECURSIVE SumMedia(_, _, _)
SumMedia(posts, lo, hi) ==
    IF lo > hi THEN 0
    ELSE IF lo = hi THEN Len(posts[lo].media)
    ELSE LET mid == (lo + hi) \div 2
         IN  SumMedia(posts, lo, mid) + SumMedia(posts, mid + 1, hi)
\* posts.reduce((sum, post) => sum + post.media.length, 0)
MediaCount(posts) == SumMedia(posts, 1, Len(posts))

\* mutant: the total of the preparation event is not raised to 1
PrepareEventUnclamped(posts) == Progress(0, MediaCount(posts), "prepare")
\* the event of exportTimeline before exportMedia
PrepareEvent(posts) == Progress(0, Max(1, MediaCount(posts)), "prepare")
\* the event of exportTimeline before the formatter
WritingEvent(posts) == Progress(0, Max(1, Len(posts)), "writing")
\* the event of exportTimeline after the formatter
DoneEvent(posts) == Progress(Len(posts), Max(1, Len(posts)), "done")
\* mutant: the event counts the items left
MediaEventCountdown(c, t) == Progress(t - c, t, "media")
\* the event of exportMedia after an item
MediaEvent(c, t) == Progress(c, t, "media")

\* the writing event is emitted and the formatter's write awaited, unless the
\* callback throws: [events, pc, result] afterwards
WriteStart(evs, posts, throws) ==
    [events |-> Emit(evs, WritingEvent(posts)),
     pc |-> IF throws THEN "done" ELSE "write",
     thrown |-> IF throws THEN CallbackError ELSE thrown,
     result |-> IF throws THEN Caught(CallbackError) ELSE result]

\* fs.mkdir(exportDir, { recursive: true }) returns
MkdirReturned ==
    /\ pc = "mkdir"
    /\ \E ok \in BOOLEAN, t1 \in Throws, t2 \in Throws :
         IF ~ok
         THEN /\ thrown' = Error("mkdir failed")
              /\ result' = Caught(Error("mkdir failed"))
              /\ pc' = "done"
              /\ UNCHANGED <<dirs, outputPath, exportedPosts, events>>
         ELSE LET posts == NormalizePosts(timeline)
                  prepared == Emit(events, PrepareEvent(posts))
                  w == WriteStart(events, posts, t2)
              IN  /\ dirs' = dirs \cup {exportDir}
                  /\ outputPath' = PathJoin(exportDir, OutputFileName)
                  /\ exportedPosts' = posts
                  /\ IF ExportMediaRequested
                     THEN /\ events' = prepared
                          /\ pc' = IF t1 THEN "done" ELSE "mediaMkdir"
                          /\ thrown' = IF t1 THEN CallbackError ELSE thrown
                          /\ result' = IF t1 THEN Caught(CallbackError) ELSE result
                     ELSE /\ events' = w.events
                          /\ pc' = w.pc
                          /\ thrown' = w.thrown
                          /\ result' = w.result
    /\ UNCHANGED <<resolveVars, feedVars, inputVars, envVars, clock, collectVars, exportDirName,
                   exportDir, namedAt, mediaVars, files, written>>

(***************************************************************************)
(* exportMedia.                                                            *)
(***************************************************************************)
\* const mediaDir = path.join(exportDir, 'media')
MediaDir == PathJoin(exportDir, "media")

\* const sourceUrl = media.url || media.thumb
SourceUrl(media) == OrElse(media.url, media.thumb)

\* mutant: the fallback is .jpg for every post
FallbackExtImage(post) == ".jpg"
\* const fallbackExt = post.type === 15 ? '.mp4' : '.jpg'
FallbackExt(post) == IF post.type = VideoType THEN ".mp4" ELSE ".jpg"

\* sanitizeFileName(`post-${postIndex + 1}-media-${mediaIndex + 1}${extension}`),
\* for the 1-based indexes p and m
FileName(posts, p, m) ==
    LET clean == sanitizeFileName(
                    [stem |-> "post-" \o ToString(p) \o "-media-" \o ToString(m),
                     ext |-> resolveMediaExtension(SourceUrl(posts[p].media[m]),
                                                   FallbackExt(posts[p]))])
    IN  clean.stem \o clean.ext

\* const targetPath = path.join(mediaDir, fileName)
TargetPath(posts, p, m) == PathJoin(MediaDir, FileName(posts, p, m))

\* (p, m) comes before (q, n) in the order of the two nested loops
LoopBefore(p, m, q, n) == p < q \/ (p = q /\ m < n)

\* the items the loops reach at or after (p, m) without hitting `continue`
Pending(posts, p, m) ==
    {it \in UNION {{<<q, n>> : n \in 1..Len(posts[q].media)} : q \in p..Len(posts)} :
        /\ ~LoopBefore(it[1], it[2], p, m)
        /\ Truthy(SourceUrl(posts[it[1]].media[it[2]]))}

\* mutant: the loops run from their end
LastPending(posts, p, m) ==
    CHOOSE it \in Pending(posts, p, m) :
        \A other \in Pending(posts, p, m) :
            other = it \/ LoopBefore(other[1], other[2], it[1], it[2])
\* the first of them
FirstPending(posts, p, m) ==
    CHOOSE it \in Pending(posts, p, m) :
        \A other \in Pending(posts, p, m) :
            other = it \/ LoopBefore(it[1], it[2], other[1], other[2])

\* the loops run from (p, m) to the next download, or to their end, after which
\* exportMedia returns and exportTimeline goes on to the formatter
LoopFrom(evs, posts, p, m, throws) ==
    IF Pending(posts, p, m) = {}
    THEN LET w == WriteStart(evs, posts, throws)
         IN  /\ events' = w.events
             /\ pc' = w.pc
             /\ thrown' = w.thrown
             /\ result' = w.result
             /\ UNCHANGED <<postIndex, mediaIndex, started>>
    ELSE /\ events' = evs
         /\ postIndex' = FirstPending(posts, p, m)[1]
         /\ mediaIndex' = FirstPending(posts, p, m)[2]
         /\ started' = Append(started, [post |-> FirstPending(posts, p, m)[1],
                                        media |-> FirstPending(posts, p, m)[2]])
         /\ pc' = "download"
         /\ UNCHANGED <<result, thrown>>

\* fs.mkdir(mediaDir, { recursive: true }) returns
MediaMkdirReturned ==
    /\ pc = "mediaMkdir"
    /\ \E ok \in BOOLEAN, t \in Throws :
         IF ~ok
         THEN /\ thrown' = Error("mkdir failed")
              /\ result' = Caught(Error("mkdir failed"))
              /\ pc' = "done"
              /\ UNCHANGED <<dirs, total, current, postIndex, mediaIndex, started,
                             events>>
         ELSE /\ dirs' = dirs \cup {MediaDir}
              /\ total' = MediaCount(exportedPosts)
              /\ current' = 0
              /\ IF MediaCount(exportedPosts) = 0
                 THEN LET w == WriteStart(events, exportedPosts, t)
                      IN  /\ events' = w.events
                          /\ pc' = w.pc
                          /\ thrown' = w.thrown
                          /\ result' = w.result
                          /\ UNCHANGED <<postIndex, mediaIndex, started>>
                 ELSE LoopFrom(events, exportedPosts, 1, 1, t)
    /\ UNCHANGED <<resolveVars, feedVars, inputVars, envVars, clock, collectVars, pathVars,
                   exportedPosts, downloads, mediaFiles, files, written>>

\* mutant: localPath is the target path itself
WithTargetPath(media, target) ==
    [url |-> media.url, thumb |-> media.thumb, localPath |-> target]
\* media.localPath = path.relative(exportDir, targetPath)
WithLocalPath(media, target) ==
    [url |-> media.url, thumb |-> media.thumb,
     localPath |-> PathRelative(exportDir, target)]

\* mutant: localPath is assigned whatever downloadMediaFile did
AfterDownloadAlways(posts, p, m, outcome) ==
    [posts EXCEPT ![p].media[m] = WithLocalPath(@, TargetPath(posts, p, m))]
\* the posts after downloadMediaFile ended with outcome for item (p, m)
AfterDownload(posts, p, m, outcome) ==
    IF outcome = "ok"
    THEN [posts EXCEPT ![p].media[m] = WithLocalPath(@, TargetPath(posts, p, m))]
    ELSE posts

\* current += 1
NextCurrent(c) == c + 1

\* downloadMediaFile(sourceUrl, targetPath) returns or throws
DownloadReturned ==
    /\ pc = "download"
    /\ LET media == exportedPosts[postIndex].media[mediaIndex]
           target == TargetPath(exportedPosts, postIndex, mediaIndex)
       IN  \E outcome \in downloadMediaFile(SourceUrl(media)), t1 \in Throws, t2 \in Throws :
             LET posts == AfterDownload(exportedPosts, postIndex, mediaIndex, outcome)
                 reported == Emit(events, MediaEvent(NextCurrent(current), total))
             IN  /\ exportedPosts' = posts
                 /\ mediaFiles' = IF outcome = "ok" THEN mediaFiles \cup {target}
                                  ELSE mediaFiles
                 /\ downloads' = Append(downloads,
                                   [post |-> postIndex, media |-> mediaIndex,
                                    source |-> SourceUrl(media), target |-> target,
                                    ok |-> outcome = "ok"])
                 /\ current' = NextCurrent(current)
                 /\ IF t1
                    THEN /\ events' = reported
                         /\ thrown' = CallbackError
                         /\ result' = Caught(CallbackError)
                         /\ pc' = "done"
                         /\ UNCHANGED <<postIndex, mediaIndex, started>>
                    ELSE LoopFrom(reported, posts, postIndex, mediaIndex + 1, t2)
    /\ UNCHANGED <<resolveVars, feedVars, inputVars, envVars, clock, collectVars, pathVars, total,
                   dirs, files, written>>

(***************************************************************************)
(* The formatters.  A text is a string; the media references and paths of  *)
(* the model are turned into the strings they stand for.                   *)
(***************************************************************************)
\* the string a media reference <<scheme, stem, extension>> stands for
UrlText(url) == IF url = EmptyString THEN "" ELSE url[1] \o url[2] \o url[3]
\* the string a relative path of two components stands for
PathText(path) == path[1] \o "/" \o path[2]

\* array.join(sep)
RECURSIVE Join(_, _)
Join(list, sep) ==
    IF Len(list) = 0 THEN ""
    ELSE IF Len(list) = 1 THEN list[1]
    ELSE Join(SubSeq(list, 1, Len(list) - 1), sep) \o sep \o list[Len(list)]

\* array.filter(Boolean), of strings
FilterBoolean(list) == SelectSeq(list, LAMBDA str : str # "")

\* formatTimestamp(timestamp): YYYY-MM-DD HH:MM:SS of the local time
formatTimestamp(timestamp) ==
    LET date == LocalFields(timestamp)
    IN  ToString(date.year) \o "-" \o Pad(date.month) \o "-" \o Pad(date.day)
        \o " " \o Pad(date.hours) \o ":" \o Pad(date.minutes) \o ":"
        \o Pad(date.seconds)

\* exportToTxt: (item) => item.localPath || item.url || item.thumb
TxtMediaItem(item) ==
    IF "localPath" \in DOMAIN item /\ item.localPath # EmptyString
    THEN PathText(item.localPath)
    ELSE IF item.url # EmptyString THEN UrlText(item.url) ELSE UrlText(item.thumb)

\* exportToTxt: the text of a comment
TxtComment(comment) ==
    comment.nickname
    \o (IF comment.refNickname # "" THEN " reply " \o comment.refNickname ELSE "")
    \o ": " \o comment.content

\* exportToTxt: the lines pushed for the post of 0-based index
TxtBlock(post, index) ==
    LET mediaList ==
            Join(FilterBoolean([m \in 1..Len(post.media) |-> TxtMediaItem(post.media[m])]),
                 " | ")
        commentText ==
            Join([c \in 1..Len(post.comments) |-> TxtComment(post.comments[c])], " | ")
    IN  << "[" \o ToString(index + 1) \o "]" \o formatTimestamp(post.createTime)
           \o " " \o post.nickname \o " (" \o post.username \o ")" >>
        \o (IF post.contentDesc # "" THEN <<post.contentDesc>> ELSE <<>>)
        \o (IF Len(post.media) > 0 /\ mediaList # ""
            THEN <<"media: " \o mediaList>> ELSE <<>>)
        \o (IF Len(post.likes) > 0
            THEN <<"likes: " \o Join(post.likes, ", ")>> ELSE <<>>)
        \o (IF Len(post.comments) > 0
            THEN <<"comments: " \o commentText>> ELSE <<>>)
        \o <<"">>

\* the blocks lo..hi of the posts, one after the other
RECURSIVE TxtLines(_, _, _)
TxtLines(posts, lo, hi) ==
    IF lo > hi THEN <<>>
    ELSE IF lo = hi THEN TxtBlock(posts[lo], lo - 1)
    ELSE LET mid == (lo + hi) \div 2
         IN  TxtLines(posts, lo, mid) \o TxtLines(posts, mid + 1, hi)

\* exportToTxt: the lines of the file, which it joins with newlines
exportToTxt(posts) == [format |-> "txt", lines |-> TxtLines(posts, 1, Len(posts))]

\* mutant: the spreadsheet lists the url where the text lists the local path
ExcelMediaItemRemote(item) ==
    IF item.url # EmptyString THEN UrlText(item.url) ELSE UrlText(item.thumb)
\* exportToExcel: (item) => item.localPath || item.url || item.thumb
ExcelMediaItem(item) ==
    IF "localPath" \in DOMAIN item /\ item.localPath # EmptyString
    THEN PathText(item.localPath)
    ELSE IF item.url # EmptyString THEN UrlText(item.url) ELSE UrlText(item.thumb)

\* exportToExcel: the text of a comment
ExcelComment(comment) ==
    comment.nickname
    \o (IF comment.refNickname # "" THEN " reply " \o comment.refNickname ELSE "")
    \o ": " \o comment.content

\* exportToExcel: the row added for the post of 0-based index
ExcelRow(post, index) ==
    [index |-> index + 1,
     time |-> formatTimestamp(post.createTime),
     nickname |-> post.nickname,
     username |-> post.username,
     content |-> post.contentDesc,
     media |-> Join(FilterBoolean([m \in 1..Len(post.media) |->
                                      ExcelMediaItem(post.media[m])]), "\n"),
     likes |-> Join(post.likes, ", "),
     comments |-> Join([c \in 1..Len(post.comments) |->
                          ExcelComment(post.comments[c])], "\n")]

\* exportToExcel: the sheet, its columns and its rows
exportToExcel(posts) ==
    [format |-> "excel", sheet |-> "moments",
     columns |-> <<"index", "time", "nickname", "username", "content", "media",
                   "likes", "comments">>,
     rows |-> [i \in 1..Len(posts) |-> ExcelRow(posts[i], i - 1)]]

\* exportToJson: the payload it serializes
exportToJson(posts) ==
    [format |-> "json", exportedAt |-> clock, filters |-> filters, posts |-> posts]

\* the formatter chosen by options.format
Formatted(posts) ==
    IF options.format = "json" THEN exportToJson(posts)
    ELSE IF options.format = "txt" THEN exportToTxt(posts)
    ELSE exportToExcel(posts)

(***************************************************************************)
(* exportTimeline, the formatter and the result.                           *)
(***************************************************************************)
\* exportToJson / exportToTxt / exportToExcel returns or throws
WriteReturned ==
    /\ pc = "write"
    /\ \E ok \in BOOLEAN, t \in Throws :
         IF ~ok
         THEN /\ thrown' = Error("write failed")
              /\ result' = Caught(Error("write failed"))
              /\ pc' = "done"
              /\ UNCHANGED <<files, written, events>>
         ELSE /\ files' = files \cup {outputPath}
              /\ written' = Formatted(exportedPosts)
              /\ events' = Emit(events, DoneEvent(exportedPosts))
              /\ pc' = "done"
              /\ thrown' = IF t THEN CallbackError ELSE thrown
              /\ result' = IF t THEN Caught(CallbackError)
                           ELSE Success(exportDir, outputPath)
    /\ UNCHANGED <<resolveVars, feedVars, inputVars, envVars, clock, collectVars, pathVars,
                   exportedPosts, mediaVars, dirs>>

(***************************************************************************)
(* The live feed of SnsPage.                                               *)
(***************************************************************************)
\* window.electronAPI.sns.getTimeline(limit, currentOffset, selectedUsernames,
\* searchKeyword, startTs, endTs)
FeedRequestOf(sel, reset, off) ==
    [pending |-> TRUE, reset |-> reset, limit |-> FeedLimit, offset |-> off,
     usernames |-> sel.usernames, keyword |-> sel.keyword,
     startTime |-> StartTs(sel), endTime |-> EndTs(sel)]
FeedRequest(reset, off) == FeedRequestOf(selection, reset, off)

\* const currentOffset = reset ? 0 : offset
CurrentOffset(reset) == IF reset THEN 0 ELSE feedOffset

\* loadPosts(reset), up to its await: a call made while another is running
\* returns at once
loadPosts(reset) ==
    IF loadingRef
    THEN UNCHANGED <<loadingRef, loading, request>>
    ELSE /\ loadingRef' = TRUE
         /\ loading' = TRUE
         /\ request' = FeedRequest(reset, CurrentOffset(reset))

\* loadPosts(true) as the effect on the filters calls it once sel is
\* selected, up to its await
Reload(sel) ==
    IF loadingRef
    THEN UNCHANGED <<loadingRef, loading, request>>
    ELSE /\ loadingRef' = TRUE
         /\ loading' = TRUE
         /\ request' = FeedRequestOf(sel, TRUE, 0)

\* a filter is changed on the page (setSearchKeyword, setSelectedUsernames,
\* setStartDate, setEndDate): the page renders again and the effect on the
\* filters calls loadPosts(true)
ChangeFilters ==
    /\ ~effectPending
    /\ \E sel \in Selections \ {selection} :
         /\ selection' = sel
         /\ Reload(sel)
    /\ UNCHANGED <<feedPosts, displayed, feedOffset, hasMore, effectPending>>
    /\ UNCHANGED <<resolveVars, inputVars, envVars, clock, pc, collectVars, pathVars,
                   exportedPosts, mediaVars, result, thrown, events, dirs, files, written>>

\* useEffect(() => { loadPosts(true) }, [the four filters])
FiltersEffect ==
    /\ effectPending
    /\ effectPending' = FALSE
    /\ loadPosts(TRUE)
    /\ UNCHANGED <<selection, feedPosts, displayed, feedOffset, hasMore>>
    /\ UNCHANGED <<resolveVars, inputVars, envVars, clock, pc, collectVars,
                   pathVars,
                   exportedPosts, mediaVars, result, thrown, events, dirs, files, written>>

\* handleScroll near the bottom of the list
HandleScroll ==
    /\ hasMore /\ ~loading
    /\ loadPosts(FALSE)
    /\ UNCHANGED <<selection, feedPosts, displayed, feedOffset, hasMore, effectPending>>
    /\ UNCHANGED <<resolveVars, inputVars, envVars, clock, pc, collectVars,
                   pathVars,
                   exportedPosts, mediaVars, result, thrown, events, dirs, files, written>>

\* the refresh button: disabled={loading}, onClick={() => loadPosts(true)}
RefreshClick ==
    /\ ~loading
    /\ loadPosts(TRUE)
    /\ UNCHANGED <<selection, feedPosts, displayed, feedOffset, hasMore, effectPending>>
    /\ UNCHANGED <<resolveVars, inputVars, envVars, clock, pc, collectVars,
                   pathVars,
                   exportedPosts, mediaVars, result, thrown, events, dirs, files, written>>

\* mutant: the offset moves by the page size of the export
NextFeedOffsetByExportPage(off) == off + limit
\* setOffset(prev => prev + limit)
NextFeedOffset(off) == off + FeedLimit

\* setHasMore(result.timeline.length >= limit)
HasMoreAfterReset(rows) == Len(rows) >= FeedLimit
\* if (result.timeline.length < limit) setHasMore(false)
HasMoreAfterPage(rows) == IF Len(rows) < FeedLimit THEN FALSE ELSE hasMore

\* the getTimeline call of loadPosts returns or is rejected
LoadReturned ==
    /\ request.pending
    /\ \E resp \in getTimeline(request.limit, request.offset, 1) :
         IF resp.kind = "page"
         THEN IF request.reset
              THEN /\ feedPosts' = resp.timeline
                   /\ displayed' = <<request>>
                   /\ feedOffset' = FeedLimit
                   /\ hasMore' = HasMoreAfterReset(resp.timeline)
              ELSE /\ feedPosts' = feedPosts \o resp.timeline
                   /\ displayed' = Append(displayed, request)
                   /\ feedOffset' = NextFeedOffset(feedOffset)
                   /\ hasMore' = HasMoreAfterPage(resp.timeline)
         ELSE UNCHANGED <<feedPosts, displayed, feedOffset, hasMore>>
    /\ loading' = FALSE
    /\ loadingRef' = FALSE
    /\ request' = NoRequest
    /\ UNCHANGED <<selection, effectPending>>
    /\ UNCHANGED <<resolveVars, inputVars, envVars, clock, pc, collectVars,
                   pathVars,
                   exportedPosts, mediaVars, result, thrown, events, dirs, files, written>>

(***************************************************************************)
(* The wall clock, and exportTimeline called again.                        *)
(***************************************************************************)
\* the instant the clock is followed from: half an hour before Berlin leaves
\* daylight saving time
ClockStart == Berlin.fallBack - HourSeconds \div 2
\* the instants the clock is observed at
Instants == {ClockStart + h * HourSeconds + sec : h \in 0..MaxHours, sec \in 0..MaxSeconds}
\* time passes, up to a later instant
Tick ==
    /\ \E later \in Instants :
         /\ later > clock
         /\ clock' = later
    /\ UNCHANGED <<resolveVars, feedVars, inputVars, envVars, pc, collectVars, pathVars,
                   exportedPosts, mediaVars, result, thrown, events, dirs, files, written>>

\* what the invocation leaves behind once it has returned
Finished ==
    [outputDir |-> outputDir, named |-> exportDir # <<>>, namedAt |-> namedAt,
     exportDir |-> exportDir, outputPath |-> outputPath, files |-> files,
     mediaFiles |-> mediaFiles]

\* exportTimeline is called again after it returned; the invocation that returned becomes the earlier one of
\* the pair the model follows
Reinvoke ==
    /\ pc = "done"
    /\ previous = NoRun
    /\ previous' = Finished
    /\ outputDir' \in OutputDirs
    /\ options' \in Options
    /\ pc' = "start"
    /\ timeline' = <<>>
    /\ offset' = 0
    /\ exportDirName' = <<>>
    /\ exportDir' = <<>>
    /\ outputPath' = <<>>
    /\ namedAt' = 0
    /\ exportedPosts' = <<>>
    /\ postIndex' = 0
    /\ mediaIndex' = 0
    /\ current' = 0
    /\ total' = 0
    /\ result' = NoResult
    /\ thrown' = NoException
    /\ calls' = <<>>
    /\ served' = <<>>
    /\ events' = <<>>
    /\ dirs' = {}
    /\ files' = {}
    /\ written' = NoContent
    /\ mediaFiles' = {}
    /\ started' = <<>>
    /\ downloads' = <<>>
    /\ UNCHANGED <<resolveVars, feedVars, filters, onProgress, source, layout, zone, clock>>

(***************************************************************************)
(* SnsService.resolveMediaPath.  A media reference is here the record of   *)
(* its parts: scheme, directory, name, _thumb or _hd tag, extension and    *)
(* query; the string it stands for is their concatenation.                 *)
(***************************************************************************)
Ref(scheme, dir, name, tag, ext, query) ==
    [scheme |-> scheme, dir |-> dir, name |-> name, tag |-> tag, ext |-> ext,
     query |-> query]
RefText(ref) == ref.scheme \o ref.dir \o ref.name \o ref.tag \o ref.ext \o ref.query

\* a name of 20 hexadecimal digits
HexName == "0123456789abcdef0123"

EmptyRef == Ref("", "", "", "", "", "")
Refs ==
    { EmptyRef,
      Ref("https://", "cdn/", "a", "", ".png", ""),
      Ref("HTTP://", "cdn/", "a", "", ".png", ""),
      Ref("data:", "", "image/png;base64,AAAA", "", "", ""),
      Ref("file://", "/cache/", HexName, "_thumb", ".jpg", "?v=1"),
      Ref("", "/cache/", "photo", "_hd", ".dat", ""),
      Ref("file://", "/cache/", "", "", ".jpg", "") }

\* the lower case of the schemes of the model
Lower(str) == IF str = "HTTP://" THEN "http://" ELSE str

\* isRemoteMedia(url): /^https?:\/\//i.test(url) || url.startsWith('data:')
isRemoteMedia(ref) == Lower(ref.scheme) \in {"http://", "https://"} \/ ref.scheme = "data:"

\* the run of 16 to 32 hexadecimal digits in a name of the model
HexRun(name) == IF name = HexName THEN name ELSE ""

\* extractMediaKey(url); the empty string stands for undefined
extractMediaKey(ref) ==
    LET baseName == ref.name \o ref.tag \o ref.ext
        extStripped == Lower(ref.ext) \in {".dat", ".jpg", ".jpeg", ".png", ".gif", ".webp"}
        withoutExt == IF extStripped THEN ref.name \o ref.tag ELSE baseName
        trimmed == IF (extStripped \/ ref.ext = "") /\ ref.tag \in {"_thumb", "_hd"}
                   THEN ref.name ELSE withoutExt
    IN  IF RefText(ref) = "" THEN ""
        ELSE IF HexRun(ref.name) # "" THEN HexRun(ref.name)
        ELSE trimmed

\* what imageDecryptService answers: { success, localPath? }, or a rejection;
\* the empty localPath stands for none
Answer(success, localPath) ==
    [answered |-> TRUE, rejected |-> FALSE, success |-> success, localPath |-> localPath]
Rejection == [answered |-> TRUE, rejected |-> TRUE, success |-> FALSE, localPath |-> ""]
NoAnswer == [answered |-> FALSE, rejected |-> FALSE, success |-> FALSE, localPath |-> ""]
\* the answers of resolveCachedImage
CacheAnswers ==
    { Answer(TRUE, "/cache/decoded.jpg"), Answer(TRUE, ""), Answer(FALSE, ""),
      Answer(FALSE, "/cache/stale.jpg"), Rejection }
\* the answers of decryptImage
DecryptAnswers ==
    { Answer(TRUE, "/decrypted/image.jpg"), Answer(TRUE, ""), Answer(FALSE, ""),
      Answer(FALSE, "/decrypted/partial.jpg"), Rejection }

\* a call resolveMediaPath(url, sessionId) that has not run yet
Resolution(ref, sessionId) ==
    [url |-> ref, sessionId |-> sessionId, pc |-> "start", key |-> "",
     cached |-> NoAnswer, decrypted |-> NoAnswer, result |-> ""]

\* a call to imageDecryptService made by the resolution r, which is call
CallFor(r, call, service) ==
    [resolution |-> r, service |-> service,
     sessionId |-> call.sessionId,
     imageDatName |-> extractMediaKey(call.url)]
ResolverCall(r, service) == CallFor(r, resolutions[r], service)

\* mutant: a successful answer is used whether or not it has a localPath
UsableOnSuccess(answer) == answer.success
\* cached.success && cached.localPath, decrypted.success && decrypted.localPath
Usable(answer) == answer.success /\ answer.localPath # ""

\* resolveMediaPath(url, sessionId) at its first await, or returned before
Begun(call) ==
    LET key == extractMediaKey(call.url)
    IN  IF RefText(call.url) = "" \/ isRemoteMedia(call.url) \/ key = ""
        THEN [call EXCEPT !.pc = "done", !.result = RefText(call.url)]
        ELSE [call EXCEPT !.pc = "cache", !.key = key]

\* resolveMediaPath(url, sessionId), up to its first await
ResolveBegin(r) ==
    LET call == resolutions[r]
    IN  /\ call.pc = "start"
        /\ resolutions' = [resolutions EXCEPT ![r] = Begun(call)]
        /\ IF Begun(call).pc = "done"
           THEN /\ settled' = Append(settled, r)
                /\ UNCHANGED resolverCalls
           ELSE /\ resolverCalls' = Append(resolverCalls, ResolverCall(r, "resolveCachedImage"))
                /\ UNCHANGED settled

\* resolveCachedImage returns or rejects
CacheAnswered(r) ==
    /\ resolutions[r].pc = "cache"
    /\ \E answer \in CacheAnswers :
         IF answer.rejected
         THEN /\ resolutions' = [resolutions EXCEPT ![r].pc = "rejected",
                                                    ![r].cached = answer]
              /\ settled' = Append(settled, r)
              /\ UNCHANGED resolverCalls
         ELSE IF Usable(answer)
         THEN /\ resolutions' = [resolutions EXCEPT ![r].pc = "done",
                                                    ![r].cached = answer,
                                                    ![r].result = answer.localPath]
              /\ settled' = Append(settled, r)
              /\ UNCHANGED resolverCalls
         ELSE /\ resolutions' = [resolutions EXCEPT ![r].pc = "decrypt",
                                                    ![r].cached = answer]
              /\ resolverCalls' = Append(resolverCalls, ResolverCall(r, "decryptImage"))
              /\ UNCHANGED settled

\* decryptImage returns or rejects
DecryptAnswered(r) ==
    /\ resolutions[r].pc = "decrypt"
    /\ \E answer \in DecryptAnswers :
         /\ resolutions' =
               IF answer.rejected
               THEN [resolutions EXCEPT ![r].pc = "rejected", ![r].decrypted = answer]
               ELSE [resolutions EXCEPT
                        ![r].pc = "done",
                        ![r].decrypted = answer,
                        ![r].result = IF Usable(answer) THEN answer.localPath
                                      ELSE RefText(resolutions[r].url)]
         /\ settled' = Append(settled, r)
         /\ UNCHANGED resolverCalls

ResolveStarted ==
    /\ \E r \in DOMAIN resolutions : ResolveBegin(r)
    /\ UNCHANGED <<enrichment, feedVars, inputVars, envVars, clock, pc, collectVars,
                   pathVars, exportedPosts, mediaVars, result, thrown, events, dirs,
                   files, written>>
CacheReturned ==
    /\ \E r \in DOMAIN resolutions : CacheAnswered(r)
    /\ UNCHANGED <<enrichment, feedVars, inputVars, envVars, clock, pc, collectVars,
                   pathVars, exportedPosts, mediaVars, result, thrown, events, dirs,
                   files, written>>
DecryptReturned ==
    /\ \E r \in DOMAIN resolutions : DecryptAnswered(r)
    /\ UNCHANGED <<enrichment, feedVars, inputVars, envVars, clock, pc, collectVars,
                   pathVars, exportedPosts, mediaVars, result, thrown, events, dirs,
                   files, written>>

(***************************************************************************)
(* SnsService.getTimeline: the page of the source, enriched.               *)
(***************************************************************************)
\* what wcdbService.getSnsTimeline answers
RawPage(posts) == [success |-> TRUE, timeline |-> posts]
RawWithoutTimeline == [success |-> TRUE]
RawFailure == [success |-> FALSE, error |-> "db closed"]

\* posts of the source: one of alice without nickname, one of bob
RawPostA ==
    [id |-> "1", username |-> "alice", nickname |-> "",
     media |-> <<[url |-> Ref("file://", "/cache/", HexName, "", ".dat", ""),
                  thumb |-> Ref("http://", "cdn/", "a_thumb", "", ".png", "")]>>]
RawPostB ==
    [id |-> "2", username |-> "bob", nickname |-> "Bob",
     media |-> <<[url |-> Ref("", "/cache/", "photo", "_hd", ".dat", ""), thumb |-> EmptyRef],
                 [url |-> Ref("https://", "cdn/", "a", "", ".png", ""),
                  thumb |-> Ref("file://", "/cache/", HexName, "_thumb", ".jpg", "?v=1")]>>]
RawTimelines == {<<>>, <<RawPostA>>, <<RawPostB>>, <<RawPostA, RawPostB>>}
SourceResults == {RawPage(posts) : posts \in RawTimelines} \cup {RawWithoutTimeline, RawFailure}

\* the contact cache: empty, or holding alice
NoContact == [displayName |-> "", avatarUrl |-> ""]
ContactCaches ==
    { [alice |-> NoContact, bob |-> NoContact],
      [alice |-> [displayName |-> "Ally", avatarUrl |-> "https://cdn/ally.png"],
       bob |-> NoContact] }
\* this.contactCache.get(post.username); NoContact stands for undefined
ContactOf(cache, username) == IF username = "alice" THEN cache.alice ELSE cache.bob

\* normalizeMediaUrl(url)
normalizeMediaUrl(ref) ==
    IF ref.scheme = "http://" THEN [ref EXCEPT !.scheme = "https://"] ELSE ref

\* the resolveMediaPath calls of a post, as post.media.map issues them: per
\* item the url, then the thumb
RECURSIVE MediaResolutions(_, _)
MediaResolutions(post, m) ==
    IF m > Len(post.media) THEN <<>>
    ELSE << Resolution(normalizeMediaUrl(post.media[m].url), post.username),
            Resolution(normalizeMediaUrl(post.media[m].thumb), post.username) >>
         \o MediaResolutions(post, m + 1)
\* those of the posts p.. of a page, as result.timeline.map issues them
RECURSIVE TimelineResolutions(_, _)
TimelineResolutions(posts, p) ==
    IF p > Len(posts) THEN <<>>
    ELSE MediaResolutions(posts[p], 1) \o TimelineResolutions(posts, p + 1)

\* the position of the resolution of the url of item m of post p; the one
\* of its thumb is the next
UrlSlot(posts, p, m) == 2 * MediaCount(SubSeq(posts, 1, p - 1)) + 2 * m - 1

\* mutant: the values are taken in the order the resolutions returned
ResolvedInSettledOrder(slot) == resolutions[settled[slot]].result
\* the value Promise.all gives for a resolution: at its own position
ResolvedAt(slot) == resolutions[slot].result

\* the post returned for post p of the page
EnrichedPost(posts, p, cache) ==
    LET post == posts[p]
        contact == ContactOf(cache, post.username)
    IN  [id |-> post.id, username |-> post.username,
         avatarUrl |-> contact.avatarUrl,
         nickname |-> IF post.nickname # "" THEN post.nickname
                      ELSE IF contact.displayName # "" THEN contact.displayName
                      ELSE post.username,
         media |-> [m \in 1..Len(post.media) |->
                      [url |-> ResolvedAt(UrlSlot(posts, p, m)),
                       thumb |-> ResolvedAt(UrlSlot(posts, p, m) + 1)]]]

\* wcdbService.getSnsTimeline returns or rejects; for a successful page every
\* resolveMediaPath call runs to its first await before getTimeline awaits
SourceReturned ==
    /\ enrichment.pc = "source"
    /\ \/ /\ enrichment' = [enrichment EXCEPT !.pc = "rejected"]
          /\ UNCHANGED <<resolutions, resolverCalls, settled>>
       \/ \E raw \in SourceResults :
             IF raw.success /\ "timeline" \in DOMAIN raw
             THEN LET begun == [r \in 1..Len(TimelineResolutions(raw.timeline, 1)) |->
                                  Begun(TimelineResolutions(raw.timeline, 1)[r])]
                      slots == [r \in 1..Len(begun) |-> r]
                      waiting == SelectSeq(slots, LAMBDA r : begun[r].pc = "cache")
                  IN  /\ enrichment' = [enrichment EXCEPT !.pc = "resolving", !.raw = raw]
                      /\ resolutions' = begun
                      /\ resolverCalls' =
                            [k \in 1..Len(waiting) |->
                               CallFor(waiting[k], begun[waiting[k]], "resolveCachedImage")]
                      /\ settled' = SelectSeq(slots, LAMBDA r : begun[r].pc = "done")
             ELSE /\ enrichment' = [enrichment EXCEPT !.pc = "returned", !.raw = raw,
                                                      !.returned = raw]
                  /\ UNCHANGED <<resolutions, resolverCalls, settled>>
    /\ UNCHANGED <<feedVars, inputVars, envVars, clock, pc, collectVars, pathVars,
                   exportedPosts, mediaVars, result, thrown, events, dirs, files,
                   written>>

\* every Promise.all is fulfilled: getTimeline returns the enriched page
EnrichReturned ==
    /\ enrichment.pc = "resolving"
    /\ \A r \in DOMAIN resolutions : resolutions[r].pc = "done"
    /\ enrichment' =
          [enrichment EXCEPT
             !.pc = "returned",
             !.returned = [enrichment.raw EXCEPT
                             !.timeline = [p \in 1..Len(enrichment.raw.timeline) |->
                                             EnrichedPost(enrichment.raw.timeline, p,
                                                          enrichment.contacts)]]]
    /\ UNCHANGED <<resolutions, resolverCalls, settled>>
    /\ UNCHANGED <<feedVars, inputVars, envVars, clock, pc, collectVars, pathVars,
                   exportedPosts, mediaVars, result, thrown, events, dirs, files,
                   written>>

\* a resolveMediaPath call rejected: so do the Promise.all and getTimeline
EnrichRejected ==
    /\ enrichment.pc = "resolving"
    /\ \E r \in DOMAIN resolutions : resolutions[r].pc = "rejected"
    /\ enrichment' = [enrichment EXCEPT !.pc = "rejected"]
    /\ UNCHANGED <<resolutions, resolverCalls, settled>>
    /\ UNCHANGED <<feedVars, inputVars, envVars, clock, pc, collectVars, pathVars,
                   exportedPosts, mediaVars, result, thrown, events, dirs, files,
                   written>>

Next ==
    \/ Validate
    \/ PageReturned
    \/ MkdirReturned
    \/ MediaMkdirReturned
    \/ DownloadReturned
    \/ WriteReturned

\* export runs over short tables with any media
Spec == Init /\ [][Next]_vars
\* export runs over tables of several pages
SpecPaged == InitPaged /\ [][Next]_vars

NextFeed ==
    \/ Next
    \/ FiltersEffect
    \/ HandleScroll
    \/ RefreshClick
    \/ LoadReturned
\* the live feed and an export started from it, over a fixed list
SpecFeed == InitFeed /\ [][NextFeed]_vars

\* the tables the filters are changed over: fixed lists of up to three
\* pages of the feed
FilterSources ==
    {StableSource(n) : n \in {0, FeedLimit - 1, FeedLimit + 1, 2 * FeedLimit + 1}}
\* the page is open; no export is running
InitFilters ==
    /\ zone = UTC
    /\ clock = 0
    /\ selection \in Selections
    /\ InitPage
    /\ NoResolution
    /\ filters = NoFilter
    /\ source \in FilterSources
    /\ layout = <<>>
    /\ InitInvocation
    /\ outputDir = EmptyString
    /\ options = [format |-> "json"]
    /\ onProgress = "absent"
NextFilters ==
    \/ FiltersEffect
    \/ ChangeFilters
    \/ HandleScroll
    \/ RefreshClick
    \/ LoadReturned
\* the live feed while its filters are changed
SpecFilters == InitFilters /\ [][NextFilters]_vars

\* one post with one media item, exported without callback in either zone
InitClock ==
    /\ zone \in Zones
    /\ clock = ClockStart
    /\ selection = NoSelection
    /\ InitPage
    /\ NoResolution
    /\ filters = NoFilter
    /\ source = StableSource(1)
    /\ layout = <<<<[url |-> RemoteUrl, thumb |-> RemoteThumb]>>>>
    /\ InitInvocation
    /\ onProgress = "absent"
NextClock ==
    \/ Next
    \/ Tick
    \/ Reinvoke
\* the media export over items of every kind
SpecNaming == InitNaming /\ [][Next]_vars

\* exports called one after the other while the clock advances
SpecClock == InitClock /\ [][NextClock]_vars

\* getTimeline resolves the url and the thumb of a media item of a post of
\* alice at the same time; no export is running
InitResolve ==
    /\ zone = UTC
    /\ clock = 0
    /\ selection = NoSelection
    /\ InitPage
    /\ \E url \in Refs, thumb \in Refs :
         resolutions = <<Resolution(url, "alice"), Resolution(thumb, "alice")>>
    /\ resolverCalls = <<>>
    /\ settled = <<>>
    /\ enrichment = NoEnrichment
    /\ filters = NoFilter
    /\ source = StableSource(0)
    /\ layout = <<>>
    /\ InitInvocation
    /\ outputDir = EmptyString
    /\ options = [format |-> "json"]
    /\ onProgress = "absent"
NextResolve ==
    \/ ResolveStarted
    \/ CacheReturned
    \/ DecryptReturned
\* two resolveMediaPath calls running side by side
SpecResolve == InitResolve /\ [][NextResolve]_vars

\* getTimeline has been called and awaits the source; no export is running
InitEnrich ==
    /\ zone = UTC
    /\ clock = 0
    /\ selection = NoSelection
    /\ InitPage
    /\ resolutions = <<>>
    /\ resolverCalls = <<>>
    /\ settled = <<>>
    /\ \E cache \in ContactCaches :
         enrichment = [pc |-> "source", contacts |-> cache, raw |-> RawWithoutTimeline,
                       returned |-> RawWithoutTimeline]
    /\ filters = NoFilter
    /\ source = StableSource(0)
    /\ layout = <<>>
    /\ InitInvocation
    /\ outputDir = EmptyString
    /\ options = [format |-> "json"]
    /\ onProgress = "absent"
NextEnrich ==
    \/ SourceReturned
    \/ CacheReturned
    \/ DecryptReturned
    \/ EnrichReturned
    \/ EnrichRejected
\* one getTimeline call and its resolutions
SpecEnrich == InitEnrich /\ [][NextEnrich]_vars

(***************************************************************************)
(* Properties.                                                             *)
(***************************************************************************)
\* collectTimeline has returned its timeline to exportTimeline
CollectReturned ==
    /\ pc \notin {"start", "collect"}
    /\ Len(served) > 0
    /\ served[Len(served)].kind \in {"page", "missing"}

\* a response that ends the aggregation: fewer than 200 rows, or no timeline
IsShort(resp) == resp.kind = "missing" \/ Len(resp.timeline) < 200
\* a page of exactly 200 rows
IsFull(resp) == resp.kind = "page" /\ Len(resp.timeline) = 200

RECURSIVE SumLens(_, _)
SumLens(resps, n) ==
    IF n = 0 THEN 0 ELSE SumLens(resps, n - 1) + Len(resps[n].timeline)

\* C1: when collectTimeline returns, the responses it got are full pages
\* followed by one short (or empty, or missing) page, and its timeline is
\* their concatenation: row i of page k is row 200*(k-1)+i of the timeline,
\* and the timeline has no other row.
C1_Concatenation ==
    CollectReturned =>
        LET n == Len(served)
        IN  /\ \A k \in 1..(n - 1) : IsFull(served[k])
            /\ IsShort(served[n])
            /\ Len(timeline) = SumLens(served, n)
            /\ \A k \in 1..n : \A i \in 1..Len(served[k].timeline) :
                 timeline[200 * (k - 1) + i] = served[k].timeline[i]

\* two full pages and a short, non-empty one were concatenated
C1_Witness ==
    /\ CollectReturned
    /\ Len(served) = 3
    /\ Len(served[3].timeline) = 199
    /\ Len(timeline) = 599

\* C2: the k-th getTimeline call has limit 200, offset 200*(k-1) and the
\* filters of the invocation; a call is issued only after a full page, so
\* none follows a short page or a failure; and a fixed list of N rows is
\* aggregated in exactly N \div 200 + 1 calls.
C2_CallSequence ==
    /\ \A k \in 1..Len(calls) :
         calls[k] = [limit |-> 200, offset |-> 200 * (k - 1),
                     usernames |-> filters.usernames, keyword |-> filters.keyword,
                     startTime |-> filters.startTime, endTime |-> filters.endTime]
    /\ Len(calls) \in {Len(served), Len(served) + 1}
    /\ \A k \in 1..Len(served) : k < Len(calls) => IsFull(served[k])
    /\ (source.stable /\ CollectReturned) => Len(calls) = (source.rows \div 200) + 1

\* the scenario of the specification: 250 rows for alice, calls at 0 and 200
C2_Witness ==
    /\ source.stable /\ source.rows = 250
    /\ filters = AliceFilter
    /\ CollectReturned
    /\ Len(calls) = 2
    /\ calls[1].offset = 0 /\ calls[2].offset = 200
    /\ Len(timeline) = 250

\* C3: a page request that reports success=false is the last one, and ends
\* the invocation with {success: false, error} carrying the source's message
\* (the default message when the source gave none), before any directory,
\* download, file or progress event.
C3_AggregationFailure ==
    \A k \in 1..Len(served) :
        served[k].kind = "fail" =>
            /\ k = Len(served)
            /\ Len(calls) = k
            /\ pc = "done"
            /\ result = [success |-> FALSE,
                         error |-> IF served[k].error = ""
                                   THEN "Error: get timeline failed"
                                   ELSE "Error: " \o served[k].error]
            /\ dirs = {} /\ files = {} /\ mediaFiles = {}
            /\ downloads = <<>> /\ events = <<>>

\* the second page request failed with the source's message
C3_Witness ==
    /\ Len(served) = 2
    /\ served[2].kind = "fail"
    /\ served[2].error = "db closed"
    /\ result = [success |-> FALSE, error |-> "Error: db closed"]

\* C4: with an empty outputDir the invocation ends at once with a failure
\* and has called nothing: no getTimeline, no mkdir, no download, no write,
\* no onProgress.
C4_EmptyOutputDir ==
    outputDir = EmptyString =>
        /\ pc \in {"start", "done"}
        /\ pc = "done" => result = [success |-> FALSE, error |-> "export path not set"]
        /\ calls = <<>> /\ served = <<>>
        /\ dirs = {} /\ files = {} /\ mediaFiles = {}
        /\ downloads = <<>> /\ events = <<>>

\* the invocation with an empty outputDir has returned
C4_Witness ==
    /\ outputDir = EmptyString
    /\ pc = "done"
    /\ result.success = FALSE

\* C5: exportTimeline never lets an exception out: whatever is thrown inside
\* it (by a page request, a mkdir, the formatter, the callback) ends the
\* invocation with {success: false, error: String(exception)}; every finished
\* invocation has a result; and success comes with outputDir and outputPath,
\* only after the aggregation returned, the export directory was created and
\* the output file was written, with nothing thrown.
C5_NeverThrows ==
    /\ pc = "done" <=> result # NoResult
    /\ thrown # NoException =>
         /\ pc = "done"
         /\ result = [success |-> FALSE,
                      error |-> thrown.name \o ": " \o thrown.message]
    /\ result.success =>
         /\ thrown = NoException
         /\ result = [success |-> TRUE, outputDir |-> exportDir, outputPath |-> outputPath]
         /\ Len(result.outputDir) = 2 /\ Len(result.outputPath) = 3
         /\ CollectReturned
         /\ exportDir \in dirs
         /\ outputPath \in files

\* the formatter failed after the export and media directories were created
C5_Witness ==
    /\ thrown = [name |-> "Error", message |-> "write failed"]
    /\ result = [success |-> FALSE, error |-> "Error: write failed"]
    /\ Cardinality(dirs) = 2
    /\ files = {}

\* an onProgress call threw
CallbackThrew == thrown = CallbackError

\* the media items (post, index) of the exported posts that have a source
SourcedItems ==
    {it \in UNION {{<<p, m>> : m \in 1..Len(exportedPosts[p].media)} :
                      p \in 1..Len(exportedPosts)} :
        exportedPosts[it[1]].media[it[2]].url # EmptyString
        \/ exportedPosts[it[1]].media[it[2]].thumb # EmptyString}

\* exportMedia has returned to exportTimeline
MediaExported == ExportMediaRequested /\ (pc = "write" \/ outputPath \in files)

\* C6: a throwing onProgress does not abort the export: the invocation in
\* which a callback threw still attempts every media item, writes the
\* output file and returns success.
C6_CallbackIsolated ==
    (pc = "done" /\ CallbackThrew) =>
        /\ result.success
        /\ outputPath \in files
        /\ ExportMediaRequested =>
             {<<downloads[i].post, downloads[i].media>> : i \in 1..Len(downloads)}
                 = SourcedItems

HasLocalPath(media) == "localPath" \in DOMAIN media

\* C7: a failed download or copy is skipped. The downloads are attempted in
\* post-then-media order; when exportMedia returns, every item with a source
\* has been attempted, whatever failed before it; an item carries a
\* localPath exactly when its download succeeded; and an invocation that
\* attempted downloads fails only on the formatter or the callback.
C7_MediaFailureIsolated ==
    /\ \A i \in 1..Len(downloads) : \A j \in 1..Len(downloads) :
         i < j => \/ downloads[i].post < downloads[j].post
                  \/ /\ downloads[i].post = downloads[j].post
                     /\ downloads[i].media < downloads[j].media
    /\ LET sourced == SourcedItems
       IN  /\ \A i \in 1..Len(downloads) :
                 <<downloads[i].post, downloads[i].media>> \in sourced
           /\ MediaExported =>
                 \A it \in sourced :
                    \E i \in 1..Len(downloads) :
                       <<downloads[i].post, downloads[i].media>> = it
    /\ \A p \in 1..Len(exportedPosts) : \A m \in 1..Len(exportedPosts[p].media) :
         HasLocalPath(exportedPosts[p].media[m])
            <=> \E i \in 1..Len(downloads) :
                   /\ downloads[i].post = p /\ downloads[i].media = m
                   /\ downloads[i].ok
    /\ (pc = "done" /\ downloads # <<>>) =>
         \/ result.success
         \/ thrown \in {CallbackError, [name |-> "Error", message |-> "write failed"]}

\* the second of three downloads failed, the export succeeded, and only the
\* first and third items carry a localPath
C7_Witness ==
    /\ result.success
    /\ Len(downloads) = 3
    /\ downloads[1].ok /\ ~downloads[2].ok /\ downloads[3].ok
    /\ HasLocalPath(exportedPosts[downloads[1].post].media[downloads[1].media])
    /\ ~HasLocalPath(exportedPosts[downloads[2].post].media[downloads[2].media])
    /\ HasLocalPath(exportedPosts[downloads[3].post].media[downloads[3].media])

\* the events of exportMedia, one per reported item
MediaEvents == SelectSeq(events, LAMBDA e : e.message = "media")

\* C8: when exportMedia returns, its events count from 1 to total, and
\* total is the number of media items of the posts: one event per item,
\* items without url and thumb included.
C8_MediaProgress ==
    (MediaExported /\ onProgress = "present") =>
        /\ Len(MediaEvents) = MediaCount(exportedPosts)
        /\ \A i \in 1..Len(MediaEvents) :
             /\ MediaEvents[i].current = i
             /\ MediaEvents[i].total = MediaCount(exportedPosts)

\* C9 as claimed: current never decreases over the events of one invocation.
C9_NonDecreasing ==
    \A i \in 1..Len(events) : \A j \in 1..Len(events) :
        i < j => events[i].current <= events[j].current

\* the events of the media export come first, those of the file after
Phase(event) == IF event.message \in {"prepare", "media"} THEN 1 ELSE 2

\* C9 as amended: current never decreases among the events of the media
\* export (preparation, items), nor among those of the file (writing,
\* completion); the writing event starts again from 0.
C9_NonDecreasingPerPhase ==
    /\ \A i \in 1..Len(events) : \A j \in 1..Len(events) :
         i < j => /\ Phase(events[i]) <= Phase(events[j])
                  /\ Phase(events[i]) = Phase(events[j])
                        => events[i].current <= events[j].current
    /\ \A i \in 1..Len(events) : events[i].message = "writing" => events[i].current = 0

\* two items were reported (current 2), then the writing event (current 0)
\* and the completion event
C9_Witness ==
    /\ result.success
    /\ Len(events) = 5
    /\ events[3].message = "media" /\ events[3].current = 2
    /\ events[4].message = "writing" /\ events[4].current = 0
    /\ events[5].message = "done"

\* C10: a successful invocation with a callback ends its events with one
\* where current = total = max(1, number of posts), emitted after the
\* output file was written.
C10_FinalEvent ==
    /\ (result.success /\ onProgress = "present") =>
         LET last == events[Len(events)]
         IN  /\ last.message = "done"
             /\ last.total = Max(1, Len(exportedPosts))
             /\ last.current = last.total
    /\ \A i \in 1..Len(events) : events[i].message = "done" => outputPath \in files

\* C11: when exportMedia is false or unset, the invocation creates no media
\* directory, starts no download or copy, writes no media file, emits no
\* preparation or per-item event, and leaves every media item of the posts it
\* serializes without localPath; this for every timeline and format.
C11_NoMediaExport ==
    ("exportMedia" \notin DOMAIN options \/ options.exportMedia = FALSE) =>
        /\ \A d \in dirs : d[Len(d)] # "media"
        /\ dirs \subseteq {exportDir}
        /\ downloads = <<>>
        /\ mediaFiles = {}
        /\ \A i \in 1..Len(events) : events[i].message \in {"writing", "done"}
        /\ \A p \in 1..Len(exportedPosts) : \A m \in 1..Len(exportedPosts[p].media) :
             ~HasLocalPath(exportedPosts[p].media[m])

\* an export without exportMedia succeeded over posts whose media have a
\* source to download from
C11_Witness ==
    /\ "exportMedia" \notin DOMAIN options
    /\ result.success
    /\ Cardinality(SourcedItems) = MaxMedia
    /\ Len(events) = 2
    /\ dirs = {exportDir}

\* the live feed has loaded every page: nothing in flight, hasMore false
FeedComplete == ~hasMore /\ ~request.pending /\ ~loading /\ ~effectPending

\* C12: over a fixed list, the timeline the export aggregates in pages of
\* 200 is the list the live feed holds once it has loaded pages of 20 from
\* a reset until hasMore is false, for the same filters: the same rows in
\* the same order, each row of the list once; and the two ask the source
\* with the same usernames, keyword, start and end time.
C12_FeedEquivalence ==
    /\ (CollectReturned /\ FeedComplete) =>
         /\ timeline = feedPosts
         /\ Len(feedPosts) = source.rows
         /\ \A i \in 1..Len(feedPosts) : feedPosts[i].id = i
    /\ \A k \in 1..Len(calls) :
         request.pending =>
            /\ request.usernames = calls[k].usernames
            /\ request.keyword = calls[k].keyword
            /\ request.startTime = calls[k].startTime
            /\ request.endTime = calls[k].endTime

\* 250 rows for alice: the export took two pages, the feed thirteen
C12_Witness ==
    /\ CollectReturned /\ FeedComplete
    /\ selection.usernames = <<"alice">>
    /\ Len(calls) = 2
    /\ feedOffset = 13 * 20
    /\ Len(timeline) = 250
    /\ Len(feedPosts) = 250

\* C13: two invocations with the same outputDir share the export directory
\* only if their base names were built in the same second; built in
\* different seconds, their export directories, output files and media
\* files are distinct.
C13_DistinctSeconds ==
    (previous.named /\ exportDir # <<>> /\ previous.outputDir = outputDir) =>
        /\ previous.exportDir = exportDir => previous.namedAt = namedAt
        /\ previous.namedAt # namedAt =>
              /\ previous.files \cap files = {}
              /\ previous.mediaFiles \cap mediaFiles = {}

\* C14: in one invocation the export directory is outputDir/<name> and the
\* output file is outputDir/<name>/<name>.<ext>, with <name> the base name
\* built when the aggregation returned and ext json, xlsx or txt by format,
\* however far the clock has moved since.
C14_SameBaseName ==
    /\ exportDir # <<>> =>
         /\ Len(exportDir) = Len(outputDir) + 1
         /\ SubSeq(exportDir, 1, Len(outputDir)) = outputDir
         /\ exportDir[Len(exportDir)] = exportDirName
    /\ outputPath # <<>> =>
         /\ Len(outputPath) = Len(exportDir) + 1
         /\ SubSeq(outputPath, 1, Len(exportDir)) = exportDir
         /\ outputPath[Len(outputPath)] =
               exportDir[Len(exportDir)] \o
                  (CASE options.format = "json" -> ".json"
                     [] options.format = "excel" -> ".xlsx"
                     [] options.format = "txt" -> ".txt")
    /\ result.success => result.outputPath = outputPath /\ outputPath \in files

\* a spreadsheet export that succeeded an hour after its base name was built
C14_Witness ==
    /\ result.success
    /\ options.format = "excel"
    /\ clock >= namedAt + 3600
    /\ exportDirName = "sns-export-20231029-023000"
    /\ outputPath = <<"/out", "sns-export-20231029-023000",
                      "sns-export-20231029-023000.xlsx">>

\* C15: a localPath is relative to the export directory: it is
\* media/post-<p>-media-<m><ext> for the 1-based indexes p and m of its
\* item, it does not start with the components of outputDir, it names a
\* media file written below the export directory, and the item has it only
\* after its download or copy completed without error.
C15_RelativeLocalPath ==
    \A p \in 1..Len(exportedPosts) : \A m \in 1..Len(exportedPosts[p].media) :
        LET media == exportedPosts[p].media[m]
        IN  HasLocalPath(media) =>
              /\ Len(media.localPath) = 2
              /\ media.localPath[1] = "media"
              /\ \E ext \in {".png", ".jpg", ".mp4"} :
                    media.localPath[2] =
                       "post-" \o ToString(p) \o "-media-" \o ToString(m) \o ext
              /\ exportDir \o media.localPath \in mediaFiles
              /\ \E i \in 1..Len(downloads) :
                    /\ downloads[i].post = p /\ downloads[i].media = m
                    /\ downloads[i].ok
                    /\ downloads[i].target = exportDir \o media.localPath

\* the first item of the second post was copied from its thumbnail
C15_Witness ==
    /\ result.success
    /\ Len(exportedPosts) = 2
    /\ Len(exportedPosts[2].media) >= 1
    /\ HasLocalPath(exportedPosts[2].media[1])
    /\ exportedPosts[2].media[1].localPath = <<"media", "post-2-media-1.jpg">>
    /\ <<"/out", "sns-export-19700101-000000", "media", "post-2-media-1.jpg">>
          \in mediaFiles

\* the media strings of a post: per item the localPath if it has one, else
\* the url, else the thumb, the empty ones dropped
MediaStrings(post) ==
    SelectSeq([m \in 1..Len(post.media) |->
                 IF HasLocalPath(post.media[m])
                 THEN post.media[m].localPath[1] \o "/" \o post.media[m].localPath[2]
                 ELSE IF post.media[m].url # <<>>
                 THEN post.media[m].url[1] \o post.media[m].url[2] \o post.media[m].url[3]
                 ELSE IF post.media[m].thumb # <<>>
                 THEN post.media[m].thumb[1] \o post.media[m].thumb[2]
                      \o post.media[m].thumb[3]
                 ELSE ""],
              LAMBDA str : str # "")

\* the strings of the comments of a post
CommentStrings(post) ==
    [c \in 1..Len(post.comments) |->
        IF post.comments[c].refNickname = ""
        THEN post.comments[c].nickname \o ": " \o post.comments[c].content
        ELSE post.comments[c].nickname \o " reply " \o post.comments[c].refNickname
             \o ": " \o post.comments[c].content]

\* a line of the text file for a field: none when the field is empty
FieldLine(label, text) == IF text = "" THEN <<>> ELSE <<label \o text>>

\* C16: for every post the text block and the spreadsheet row carry the
\* same content: the row has the 1-based index, the formatted time, the
\* nickname, the username and the text of the post, its media cell is the
\* media strings joined by newlines, its likes cell the likes, its comments
\* cell the comment strings joined by newlines; and the block is the header
\* made of the row's index, time, nickname and username, followed by the
\* row's content, the same media strings joined by " | ", the row's likes
\* and the same comment strings joined by " | ", each on a line of its own
\* that is left out when empty, and a blank line. The file written is made
\* of these blocks, or of these rows.
C16_TxtExcelEquivalent ==
    /\ pc = "write" => \A i \in 1..Len(exportedPosts) :
         LET post == exportedPosts[i]
             row == ExcelRow(post, i - 1)
             block == TxtBlock(post, i - 1)
         IN  /\ row.index = i
             /\ row.time = formatTimestamp(post.createTime)
             /\ row.nickname = post.nickname
             /\ row.username = post.username
             /\ row.content = post.contentDesc
             /\ row.media = Join(MediaStrings(post), "\n")
             /\ row.likes = Join(post.likes, ", ")
             /\ row.comments = Join(CommentStrings(post), "\n")
             /\ block =
                   << "[" \o ToString(row.index) \o "]" \o row.time \o " "
                      \o row.nickname \o " (" \o row.username \o ")" >>
                   \o FieldLine("", row.content)
                   \o FieldLine("media: ", Join(MediaStrings(post), " | "))
                   \o FieldLine("likes: ", row.likes)
                   \o FieldLine("comments: ", Join(CommentStrings(post), " | "))
                   \o <<"">>
    /\ written.format = "excel" =>
         written.rows = [i \in 1..Len(exportedPosts) |-> ExcelRow(exportedPosts[i], i - 1)]
    /\ written.format = "txt" =>
         /\ Len(exportedPosts) >= 1 =>
               SubSeq(written.lines, 1, Len(TxtBlock(exportedPosts[1], 0)))
                  = TxtBlock(exportedPosts[1], 0)
         /\ Len(exportedPosts) = 2 =>
               written.lines = TxtBlock(exportedPosts[1], 0) \o TxtBlock(exportedPosts[2], 1)

\* a text file was written for two posts, the first with a text, a
\* downloaded item and an item that failed to download, the second with likes
C16_Witness ==
    /\ result.success
    /\ written.format = "txt"
    /\ Len(exportedPosts) = 2
    /\ written.lines[1] = "[1]2023-11-14 22:13:21 Alice (alice)"
    /\ written.lines[2] = "hello"
    /\ written.lines[3] = "media: media/post-1-media-1.png | https://cdn/a.png"
    /\ written.lines[4] = "comments: Bob: nice | Carol reply Bob: yes"
    /\ written.lines[5] = ""
    /\ ExcelRow(exportedPosts[1], 0).media = "media/post-1-media-1.png\nhttps://cdn/a.png"
    /\ \E k \in 1..Len(written.lines) : written.lines[k] = "likes: Bob, Carol"

\* item a comes before item b in post-then-media order
ItemBefore(a, b) == a.post < b.post \/ (a.post = b.post /\ a.media < b.media)

\* C17: at most one download or copy is in flight, and it is the last one
\* started; the attempts start in strictly increasing (post, media) order,
\* passing over no item that has a source, and finish in the order they
\* start; an attempt starts only when every earlier one has finished and,
\* with a callback, has been reported: the n-th per-item event has current
\* n and follows the end of the n-th attempt.
C17_OneAtATime ==
    /\ Len(started) - Len(downloads) \in {0, 1}
    /\ Len(started) > Len(downloads) <=> pc = "download"
    /\ pc = "download" =>
         started[Len(started)] = [post |-> postIndex, media |-> mediaIndex]
    /\ \A i \in 1..Len(started) : \A j \in 1..Len(started) :
         i < j => ItemBefore(started[i], started[j])
    /\ LET sourced == SourcedItems
       IN  \A j \in 1..Len(started) : \A it \in sourced :
              ItemBefore([post |-> it[1], media |-> it[2]], started[j])
                 => \E i \in 1..(j - 1) : started[i] = [post |-> it[1], media |-> it[2]]
    /\ \A i \in 1..Len(downloads) :
         started[i] = [post |-> downloads[i].post, media |-> downloads[i].media]
    /\ onProgress = "present" =>
         LET reported == MediaEvents
         IN  /\ Len(reported) = Len(downloads)
             /\ \A n \in 1..Len(reported) : reported[n].current = n

\* the third item is being downloaded after the first two were reported
C17_Witness ==
    /\ pc = "download"
    /\ onProgress = "present"
    /\ Len(started) = 3
    /\ Len(downloads) = 2
    /\ Len(MediaEvents) = 2
    /\ MediaEvents[2].current = 2

\* the calls the resolution r made to imageDecryptService, in order
CallsOf(r) == SelectSeq(resolverCalls, LAMBDA c : c.resolution = r)

\* the references resolveMediaPath passes through: empty, http(s), data:
PassedThrough(ref) ==
    \/ ref.scheme \o ref.dir \o ref.name \o ref.tag \o ref.ext \o ref.query = ""
    \/ ref.scheme \in {"http://", "https://", "HTTP://", "data:"}

\* C18: resolveMediaPath makes no call for an empty, http(s) or data:
\* reference; otherwise its calls are resolveCachedImage and then, only
\* after an answer of resolveCachedImage that is no hit, decryptImage, both
\* for the session and the key of the reference; it returns the cache's
\* localPath on a hit, else the decrypted localPath on success, else the
\* reference unchanged, also when no call was made (remote, or no key); a
\* result is the reference or a localPath the collaborators answered.
C18_ResolutionChain ==
    \A r \in DOMAIN resolutions :
        LET call == resolutions[r]
            made == CallsOf(r)
            unchanged == call.url.scheme \o call.url.dir \o call.url.name
                         \o call.url.tag \o call.url.ext \o call.url.query
            hit == call.cached.success /\ call.cached.localPath # ""
            decoded == call.decrypted.success /\ call.decrypted.localPath # ""
        IN  /\ PassedThrough(call.url) => made = <<>>
            /\ Len(made) <= 2
            /\ Len(made) >= 1 =>
                  /\ made[1].service = "resolveCachedImage"
                  /\ made[1].sessionId = call.sessionId
                  /\ made[1].imageDatName = call.key /\ call.key # ""
            /\ Len(made) = 2 =>
                  /\ made[2].service = "decryptImage"
                  /\ made[2].sessionId = call.sessionId
                  /\ made[2].imageDatName = call.key
                  /\ call.cached.answered /\ ~call.cached.rejected /\ ~hit
            /\ call.decrypted.answered => Len(made) = 2
            /\ call.cached.answered => Len(made) >= 1
            /\ call.pc = "done" =>
                  /\ call.result =
                        IF made = <<>> THEN unchanged
                        ELSE IF hit THEN call.cached.localPath
                        ELSE IF decoded THEN call.decrypted.localPath
                        ELSE unchanged
                  /\ made # <<>> /\ ~hit => call.decrypted.answered
                  /\ call.result \in
                        {unchanged, call.cached.localPath, call.decrypted.localPath}
                  /\ call.result # unchanged => call.result # ""
            /\ call.pc = "rejected" =>
                  call.cached.rejected \/ call.decrypted.rejected

\* the first call got its path from decryptImage after a cache answer
\* without localPath; the second found no key and made no call
C18_Witness ==
    /\ resolutions[1].pc = "done"
    /\ resolutions[1].key = "photo"
    /\ resolutions[1].cached.success /\ resolutions[1].cached.localPath = ""
    /\ resolutions[1].result = "/decrypted/image.jpg"
    /\ Len(CallsOf(1)) = 2
    /\ resolutions[2].pc = "done"
    /\ resolutions[2].result = "file:///cache/.jpg"
    /\ CallsOf(2) = <<>>

\* the item of the timeline a download was made for
DownloadedItem(d) == exportedPosts[d.post].media[d.media]
\* the name of the file of a download, without its directory
DownloadedName(d) == d.target[Len(d.target)]
\* the name of the file of a download that has the extension ext
NameWith(d, ext) == "post-" \o ToString(d.post) \o "-media-" \o ToString(d.media) \o ext

MediaPhaseEvents == SelectSeq(events, LAMBDA e : e.message \in {"prepare", "media"})
\* the media items of the posts being exported
MediaItems ==
    UNION {{<<p, m>> : m \in 1..Len(exportedPosts[p].media)} : p \in 1..Len(exportedPosts)}

\* C20: every progress event has total >= 1 and 0 <= current <= total,
\* whatever the phase and the timeline, zero posts and zero media items
\* included; the preparation event and every per-item event of a run carry
\* the same total, the number of media items of the posts or 1 if there
\* is none; the k-th per-item event has current = k.
C20_ProgressWellFormed ==
    /\ \A i \in 1..Len(events) :
          /\ events[i].total >= 1
          /\ 0 <= events[i].current
          /\ events[i].current <= events[i].total
    /\ LET phase == MediaPhaseEvents
           items == Cardinality(MediaItems)
       IN  \A i \in 1..Len(phase) :
              /\ phase[i].total = phase[1].total
              /\ phase[i].total = IF items = 0 THEN 1 ELSE items
              /\ phase[i].current = i - 1
              /\ phase[i].message = IF i = 1 THEN "prepare" ELSE "media"

\* a finished export of three media items, one of them without source:
\* the preparation event and two per-item events, all with total 3
C20_Witness ==
    /\ pc = "done"
    /\ result.success
    /\ Cardinality(MediaItems) = 3
    /\ Len(MediaPhaseEvents) = 3
    /\ MediaPhaseEvents[1] = [current |-> 0, total |-> 3, message |-> "prepare"]
    /\ MediaPhaseEvents[3] = [current |-> 2, total |-> 3, message |-> "media"]
    /\ events[Len(events)].message = "done"
    /\ events[Len(events)].current = events[Len(events)].total

\* the answers of imageDecryptService decide the value of a resolution
\* that was made to wait: the cache's path on a hit, else the decrypted
\* path, else the reference asked for
AnsweredValue(call) ==
    IF call.cached.success /\ call.cached.localPath # "" THEN call.cached.localPath
    ELSE IF call.decrypted.success /\ call.decrypted.localPath # ""
    THEN call.decrypted.localPath
    ELSE call.url.scheme \o call.url.dir \o call.url.name \o call.url.tag
         \o call.url.ext \o call.url.query
\* the reference of the source the resolution at a position was made for
RawRefAt(posts, slot) ==
    LET found == {<<p, m>> \in (1..Len(posts)) \X (1..2) :
                     m <= Len(posts[p].media)
                     /\ slot \in {UrlSlot(posts, p, m), UrlSlot(posts, p, m) + 1}}
        at == CHOOSE pm \in found : TRUE
    IN  IF slot = UrlSlot(posts, at[1], at[2]) THEN posts[at[1]].media[at[2]].url
        ELSE posts[at[1]].media[at[2]].thumb

\* C21: for a successful page of the source, getTimeline returns as many
\* posts as the page has, in the page's order, each with as many media
\* items in its order; the url and the thumb of an item are the values of
\* the resolutions made for that url and that thumb, which the answers
\* given for them decide, whatever the order in which the resolutions
\* returned; a result of the source that is unsuccessful or has no
\* timeline is returned as it is and no resolution is started.
C21_EnrichmentOrderIndependent ==
    /\ enrichment.pc = "source" => resolutions = <<>> /\ resolverCalls = <<>>
    /\ (enrichment.pc \in {"resolving", "returned", "rejected"}
          /\ ~(enrichment.raw.success /\ "timeline" \in DOMAIN enrichment.raw)) =>
          /\ resolutions = <<>> /\ resolverCalls = <<>> /\ settled = <<>>
          /\ enrichment.pc = "returned" => enrichment.returned = enrichment.raw
    /\ (enrichment.pc = "returned"
          /\ enrichment.raw.success /\ "timeline" \in DOMAIN enrichment.raw) =>
          LET posts == enrichment.raw.timeline
              out == enrichment.returned
          IN  /\ out.success
              /\ Len(out.timeline) = Len(posts)
              /\ Len(resolutions) = 2 * MediaCount(posts)
              /\ \A r \in DOMAIN resolutions :
                    resolutions[r].url =
                       IF RawRefAt(posts, r).scheme = "http://"
                       THEN [RawRefAt(posts, r) EXCEPT !.scheme = "https://"]
                       ELSE RawRefAt(posts, r)
              /\ \A p \in 1..Len(posts) :
                    /\ out.timeline[p].id = posts[p].id
                    /\ out.timeline[p].username = posts[p].username
                    /\ Len(out.timeline[p].media) = Len(posts[p].media)
                    /\ \A m \in 1..Len(posts[p].media) :
                          /\ out.timeline[p].media[m].url =
                                AnsweredValue(resolutions[UrlSlot(posts, p, m)])
                          /\ out.timeline[p].media[m].thumb =
                                AnsweredValue(resolutions[UrlSlot(posts, p, m) + 1])

\* two posts were returned; the resolution of the thumb of the last item
\* returned before that of the url of the first post, the first from the
\* cache and the second decrypted after the url of bob's first item came
\* back unchanged
C21_Witness ==
    /\ enrichment.pc = "returned"
    /\ "timeline" \in DOMAIN enrichment.returned
    /\ Len(enrichment.returned.timeline) = 2
    /\ settled = <<2, 4, 5, 6, 3, 1>>
    /\ enrichment.returned.timeline[1].media[1] =
          [url |-> "/decrypted/image.jpg", thumb |-> "https://cdn/a_thumb.png"]
    /\ enrichment.returned.timeline[2].media[1] = [url |-> "/cache/photo_hd.dat", thumb |-> ""]
    /\ enrichment.returned.timeline[2].media[2] =
          [url |-> "https://cdn/a.png", thumb |-> "/cache/decoded.jpg"]
    /\ enrichment.returned.timeline[1].nickname = "Ally"

\* the getTimeline call k of the displayed list was made with the filters
\* selected now, for the k-th page of the feed
MadeForSelection(k) ==
    /\ displayed[k].usernames = selection.usernames
    /\ displayed[k].keyword = selection.keyword
    /\ displayed[k].startTime = StartTs(selection)
    /\ displayed[k].endTime = EndTs(selection)
    /\ displayed[k].offset = (k - 1) * 20

\* C22: whenever no load is in flight, the displayed list is made of the
\* pages at offsets 0, 20, 40, ... returned by calls made with the filters
\* selected now, however the changes of the filters, the scrolls, the
\* refresh clicks and the returns of the loads interleave.
C22_FeedMatchesFilters ==
    (~loadingRef /\ ~request.pending /\ ~effectPending) =>
        \A k \in 1..Len(displayed) : MadeForSelection(k)
=============================================================================
